---- MODULE Spec2Model ----
(***************************************************************************)
(* Model of make_wheels.py: the script that downloads the terraform        *)
(* release archives, verifies them and repackages each one as a wheel.     *)
(*                                                                         *)
(* Text is modelled in two ways.  Text that the script inspects character  *)
(* by character (the argument of normalize, the git tag) is a sequence of  *)
(* one-character strings.  Text that the script only joins and compares    *)
(* (file names, header lines) is a string, joined with \o.                 *)
(***************************************************************************)
EXTENDS Naturals, Sequences, FiniteSets, TLC

VARIABLES
    \* ---- one call chain of normalize (specification SpecNormalize)
    n_arg,              \* the argument of the first call
    n_res,              \* the value the last call returned
    n_prev,             \* the value the call before it returned
    n_calls,            \* calls made so far
    \* ---- the script (specifications Spec and SpecVersion)
    pc,                 \* the statement the script is about to run
    exit_code,          \* "none" while running, then "zero" or "nonzero"
    failed_step,        \* the step whose exception ended the run, or "none"
    GIT_TAG,            \* os.getenv("GIT_TAG", ...), as characters
    upstream,           \* the release: operating system -> member names
    PACKAGE_VERSION,    \* string, "" until resolved
    TERRAFORM_VERSION,  \* string, "" until resolved
    build_files,        \* BUILD_DIR: downloaded file name -> what it holds
    wget_calls,         \* the URLs wget was called with, in order
    gpg_passed,         \* gpg --verify returned 0 in this run
    shasum_passed,      \* shasum --check returned 0 in this run
    platform_zip,       \* the dict of line 145, as a sequence of pairs
    iter,               \* position of the running for loop in its dict
    unpacked,           \* one record per unpack_archive call, in order
    terraform_src,      \* names in the unpack directory of this iteration
    wheel_tree,         \* the assembled tree of this iteration: path -> data
    record_lines,       \* the lines written to RECORD in this iteration
    zf,                 \* entry names of the wheel file of this iteration
    wheel_files         \* the wheel files written so far, in order

normVars == <<n_arg, n_res, n_prev, n_calls>>
runVars  == <<pc, exit_code, failed_step, GIT_TAG, upstream, PACKAGE_VERSION,
              TERRAFORM_VERSION, build_files, wget_calls, gpg_passed,
              shasum_passed, platform_zip, iter, unpacked, terraform_src,
              wheel_tree, record_lines, zf, wheel_files>>
vars == <<normVars, runVars>>

(***************************************************************************)
(* Bounds of the exploration.                                              *)
(***************************************************************************)
MaxLen == 4         \* longest argument of normalize that is explored
MaxNum == 2         \* largest major, minor or patch number that is explored
BlockSize == 2      \* units per block read by rehash (1 << 20 in the code)

(***************************************************************************)
(* Text helpers.                                                           *)
(***************************************************************************)
RECURSIVE Str(_)
\* "".join(chars): the string a sequence of characters spells.
Str(chars) == IF chars = <<>> THEN "" ELSE Head(chars) \o Str(Tail(chars))

RECURSIVE JoinStr(_, _)
\* sep.join(parts) for a sequence of strings.
JoinStr(parts, sep) ==
    IF parts = <<>> THEN ""
    ELSE IF Len(parts) = 1 THEN parts[1]
    ELSE parts[1] \o sep \o JoinStr(Tail(parts), sep)

RECURSIVE SplitOn(_, _)
\* chars.split(c): the pieces of chars between occurrences of c.
SplitOn(chars, c) ==
    IF \A i \in 1..Len(chars) : chars[i] # c THEN <<chars>>
    ELSE LET k == CHOOSE i \in 1..Len(chars) :
                      chars[i] = c /\ \A j \in 1..(i - 1) : chars[j] # c
         IN  <<SubSeq(chars, 1, k - 1)>>
                 \o SplitOn(SubSeq(chars, k + 1, Len(chars)), c)

\* Position of the first c in chars, 0 when there is none.
FirstIndex(chars, c) ==
    IF \E i \in 1..Len(chars) : chars[i] = c
    THEN CHOOSE i \in 1..Len(chars) :
             chars[i] = c /\ \A j \in 1..(i - 1) : chars[j] # c
    ELSE 0

DigitChars == <<"0", "1", "2", "3", "4", "5", "6", "7", "8", "9">>
IsDigit(c) == \E d \in 1..10 : DigitChars[d] = c
DigitValue(c) == (CHOOSE d \in 1..10 : DigitChars[d] = c) - 1

RECURSIVE IntToChars(_)
\* str(n) for a natural number.
IntToChars(n) ==
    IF n < 10 THEN <<DigitChars[n + 1]>>
    ELSE IntToChars(n \div 10) \o <<DigitChars[(n % 10) + 1]>>

RECURSIVE CharsToInt(_)
\* int(chars) for a sequence of digits.
CharsToInt(chars) ==
    IF chars = <<>> THEN 0
    ELSE 10 * CharsToInt(SubSeq(chars, 1, Len(chars) - 1))
             + DigitValue(chars[Len(chars)])

(***************************************************************************)
(* normalize                                                               *)
(***************************************************************************)
\* The character class [-_.] of the pattern.
SepChars == {"-", "_", "."}

RECURSIVE normalize_each(_)
\* A faulty variant of normalize: the pattern [-_.] without the +, one "_"
\* per separator character.
normalize_each(arg) ==
    IF arg = <<>> THEN <<>>
    ELSE IF Head(arg) \in SepChars THEN <<"_">> \o normalize_each(Tail(arg))
    ELSE <<Head(arg)>> \o normalize_each(Tail(arg))

RECURSIVE SkipSep(_)
\* What is left of chars after the longest leading run of separators: the
\* greedy match of [-_.]+ at the head of chars.
SkipSep(chars) ==
    IF chars # <<>> /\ Head(chars) \in SepChars THEN SkipSep(Tail(chars))
    ELSE chars

RECURSIVE normalize(_)
\* re.sub(r"[-_.]+", "_", str(arg)): scanning from the left, a character
\* outside the class is copied, and a match (the longest run of class
\* characters starting here) is replaced by one "_".
normalize(arg) ==
    IF arg = <<>> THEN <<>>
    ELSE IF Head(arg) \in SepChars THEN <<"_">> \o normalize(SkipSep(arg))
    ELSE <<Head(arg)>> \o normalize(Tail(arg))

(***************************************************************************)
(* Version resolver (lines 71-77)                                          *)
(***************************************************************************)
Letters ==
    {"a", "b", "c", "d", "e", "f", "g", "h", "i", "j", "k", "l", "m",
     "n", "o", "p", "q", "r", "s", "t", "u", "v", "w", "x", "y", "z",
     "A", "B", "C", "D", "E", "F", "G", "H", "I", "J", "K", "L", "M",
     "N", "O", "P", "Q", "R", "S", "T", "U", "V", "W", "X", "Y", "Z"}

\* 0|[1-9]\d* : digits only, no leading zero.
IsNumericId(chars) ==
    /\ chars # <<>>
    /\ \A i \in 1..Len(chars) : IsDigit(chars[i])
    /\ (Len(chars) > 1 => chars[1] # "0")

\* [0-9a-zA-Z-]+ : a build identifier.
IsBuildId(chars) ==
    /\ chars # <<>>
    /\ \A i \in 1..Len(chars) :
           IsDigit(chars[i]) \/ chars[i] \in Letters \/ chars[i] = "-"

\* 0|[1-9]\d*|\d*[a-zA-Z-][0-9a-zA-Z-]* : a pre-release identifier.
IsPrereleaseId(chars) ==
    /\ IsBuildId(chars)
    /\ ((\A i \in 1..Len(chars) : IsDigit(chars[i])) => IsNumericId(chars))

\* The groups of the semver pattern in tag: the build is what follows the
\* first "+", the pre-release what follows the first "-" before it, and the
\* rest is the core.
SemverGroups(tag) ==
    LET plus == FirstIndex(tag, "+")
        main == IF plus = 0 THEN tag ELSE SubSeq(tag, 1, plus - 1)
        dash == FirstIndex(main, "-")
    IN  [core       |-> SplitOn(IF dash = 0 THEN main
                                ELSE SubSeq(main, 1, dash - 1), "."),
         has_pre    |-> dash # 0,
         prerelease |-> IF dash = 0 THEN <<>>
                        ELSE SubSeq(main, dash + 1, Len(main)),
         has_build  |-> plus # 0,
         build      |-> IF plus = 0 THEN <<>>
                        ELSE SubSeq(tag, plus + 1, Len(tag))]

\* Whether semver.Version.parse accepts tag (it raises ValueError if not).
IsSemver(tag) ==
    LET g == SemverGroups(tag)
    IN  /\ Len(g.core) = 3
        /\ \A i \in 1..3 : IsNumericId(g.core[i])
        /\ (g.has_pre =>
               LET ids == SplitOn(g.prerelease, ".")
               IN  \A i \in 1..Len(ids) : IsPrereleaseId(ids[i]))
        /\ (g.has_build =>
               LET ids == SplitOn(g.build, ".")
               IN  \A i \in 1..Len(ids) : IsBuildId(ids[i]))

\* One element of Version.to_tuple(): an int, a str or None.
IntElem(n)   == [kind |-> "int",  num |-> n, text |-> <<>>]
TextElem(cs) == [kind |-> "str",  num |-> 0, text |-> cs]
NoneElem     == [kind |-> "None", num |-> 0, text |-> <<>>]

\* semver.Version.parse(tag).to_tuple()
to_tuple(tag) ==
    LET g == SemverGroups(tag)
    IN  <<IntElem(CharsToInt(g.core[1])),
          IntElem(CharsToInt(g.core[2])),
          IntElem(CharsToInt(g.core[3])),
          IF g.has_pre THEN TextElem(g.prerelease) ELSE NoneElem,
          IF g.has_build THEN TextElem(g.build) ELSE NoneElem>>

\* Python's truth value of a tuple element: "if n".
Truthy(e) ==
    CASE e.kind = "int" -> e.num # 0
      [] e.kind = "str" -> e.text # <<>>
      [] OTHER          -> FALSE

\* str(arg) of a tuple element that passed the filter.
ElemChars(e) == IF e.kind = "int" THEN IntToChars(e.num) ELSE e.text

\* ".".join([normalize(n) for n in GIT_SEMVER.to_tuple() if n])
PackageVersionOf(tag) ==
    LET t    == to_tuple(tag)
        kept == SelectSeq(t, Truthy)
    IN  JoinStr([i \in 1..Len(kept) |-> Str(normalize(ElemChars(kept[i])))],
                ".")

\* str(GIT_SEMVER.finalize_version()): major.minor.patch
TerraformVersionOf(tag) ==
    LET t == to_tuple(tag)
    IN  JoinStr([i \in 1..3 |-> Str(IntToChars(t[i].num))], ".")

PACKAGE_NAME ==
    <<"t", "e", "r", "r", "a", "f", "o", "r", "m", "-",
      "b", "i", "n", "a", "r", "y", "-", "w", "h", "e", "e", "l">>

\* "-".join([normalize(PACKAGE_NAME), PACKAGE_VERSION])
PACKAGE_WHEELNAME == JoinStr(<<Str(normalize(PACKAGE_NAME)), PACKAGE_VERSION>>, "-")

(***************************************************************************)
(* Static configuration (lines 60-68 and 79-90)                            *)
(***************************************************************************)
PYTHON_TAGS == <<"py2", "py3">>
ABI_TAGS == <<"none">>

\* The dict literal, in insertion order.
PY_PLATFORM_TF_ARCH ==
    <<[platform |-> "manylinux_2_5_x86_64.musllinux_1_1_x86_64", arch |-> "linux_amd64"],
      [platform |-> "manylinux_2_5_i686.musllinux_1_1_i686",     arch |-> "linux_386"],
      [platform |-> "manylinux_2_5_aarch64.musllinux_1_1_aarch64", arch |-> "linux_arm64"],
      [platform |-> "linux_armv6l.linux_armv7l", arch |-> "linux_arm"],
      [platform |-> "macosx_11_0_x86_64",        arch |-> "darwin_amd64"],
      [platform |-> "macosx_11_0_arm64",         arch |-> "linux_arm64"],
      [platform |-> "win_amd64",                 arch |-> "windows_amd64"],
      [platform |-> "win32",                     arch |-> "windows_386"]>>

\* A URL is kept in three parts, so that Path(url).name and with_suffix
\* are operations on the parts.
ReleaseDir(v) == "https://releases.hashicorp.com/terraform/" \o v

TERRAFORM_URL(v, arch) ==
    [dir |-> ReleaseDir(v), stem |-> "terraform_" \o v \o "_" \o arch,
     suffix |-> ".zip"]

TERRAFORM_SHA256_URL(v) ==
    [dir |-> ReleaseDir(v), stem |-> "terraform_" \o v \o "_SHA256SUMS",
     suffix |-> ""]

TERRAFORM_SIGS_URL(v) ==
    [dir |-> ReleaseDir(v), stem |-> "terraform_" \o v \o "_SHA256SUMS",
     suffix |-> ".sig"]

\* BUILD_DIR.joinpath(Path(url).name)
UrlName(url) == [stem |-> url.stem, suffix |-> url.suffix]

\* path.with_suffix("")
WithoutSuffix(name) == [stem |-> name.stem, suffix |-> ""]

(***************************************************************************)
(* Dicts and directories                                                   *)
(***************************************************************************)
\* f with key k bound to v: writing a file, replacing it if it exists.
Put(f, k, v) == [x \in DOMAIN f \cup {k} |-> IF x = k THEN v ELSE f[x]]

NoFiles == [x \in {} |-> <<>>]

\* The keys of a dict kept as a sequence of <<key, value>> pairs.
Keys(d) == {d[i][1] : i \in 1..Len(d)}

\* A faulty variant of DictSet: a list of pairs instead of a dict, the pair
\* is appended even when the key is present.
DictAppend(d, k, v) == Append(d, <<k, v>>)

\* d[k] = v on a Python dict, which keeps insertion order: a key that is
\* present keeps its place and gets the new value.
DictSet(d, k, v) ==
    IF k \in Keys(d)
    THEN [i \in 1..Len(d) |-> IF d[i][1] = k THEN <<k, v>> ELSE d[i]]
    ELSE Append(d, <<k, v>>)

RECURSIVE SetToSeq(_)
\* The elements of a finite set in some fixed order.
SetToSeq(S) ==
    IF S = {} THEN <<>>
    ELSE LET x == CHOOSE y \in S : TRUE IN <<x>> \o SetToSeq(S \ {x})

\* [f for f in tree.glob("**/*") if f.is_file()], relative to the tree.
\* The order of glob is the directory order of the file system; the model
\* fixes one order.
GlobFiles(tree) == SetToSeq(DOMAIN tree)

(***************************************************************************)
(* read_chunks, rehash, make_message                                       *)
(***************************************************************************)
\* File data is a sequence of strings; the bytes of the file are their
\* concatenation.  One string stands for one unit read from the file.
RECURSIVE ByteLen(_)
\* len(block): the number of bytes in a sequence of units.
ByteLen(block) ==
    IF block = <<>> THEN 0 ELSE Len(Head(block)) + ByteLen(Tail(block))

RECURSIVE read_chunks(_, _)
\* The blocks file.read(size) returns until it returns nothing.
read_chunks(data, size) ==
    IF data = <<>> THEN <<>>
    ELSE IF Len(data) <= size THEN <<data>>
    ELSE <<SubSeq(data, 1, size)>>
             \o read_chunks(SubSeq(data, size + 1, Len(data)), size)

RECURSIVE RehashLoop(_, _, _)
\* The loop of rehash over the remaining blocks: h is what the hash object
\* has absorbed, length the bytes counted.  The digest is modelled as the
\* absorbed bytes themselves (a hash without collisions).
RehashLoop(blocks, h, length) ==
    IF blocks = <<>> THEN <<h, length>>
    ELSE RehashLoop(Tail(blocks), h \o JoinStr(Head(blocks), ""),
                    length + ByteLen(Head(blocks)))

\* rehash(path) for a file holding data: (digest, str(length)).
rehash(data) ==
    LET r == RehashLoop(read_chunks(data, BlockSize), "", 0)
    IN  <<"sha256=" \o r[1], Str(IntToChars(r[2]))>>

\* A header given to make_message: a scalar value or a list of values.
Scalar(name, value) == [name |-> name, is_list |-> FALSE, values |-> <<value>>]
List(name, values)  == [name |-> name, is_list |-> TRUE,  values |-> values]

RECURSIVE MessageHeaders(_)
\* The header fields make_message sets, in order: one per scalar, one per
\* element of a list.
MessageHeaders(headers) ==
    IF headers = <<>> THEN <<>>
    ELSE LET h == Head(headers)
         IN  [i \in 1..Len(h.values) |-> <<h.name, h.values[i]>>]
                 \o MessageHeaders(Tail(headers))

make_message(headers, payload) ==
    [fields |-> MessageHeaders(headers), payload |-> payload]

\* msg.as_string(): the header lines, a blank line, the payload.
as_string(msg) ==
    [i \in 1..Len(msg.fields) |->
        msg.fields[i][1] \o ": " \o msg.fields[i][2] \o "\n"]
      \o <<"\n">>
      \o (IF msg.payload = "" THEN <<>> ELSE <<msg.payload>>)

ReadmeText == "# terraform-binary-wheel\n"
LicenseData == <<"BSD 2-Clause License\n">>

PACKAGE_METADATA_MSG ==
    make_message(
        <<Scalar("Metadata-Version", "2.1"),
          Scalar("Name", Str(PACKAGE_NAME)),
          Scalar("Version", PACKAGE_VERSION),
          Scalar("Summary", "Python wrapper around invoking terraform (https://www.terraform.io/)"),
          Scalar("Home-Page", "https://github.com/c0m1c5an5/terraform-py"),
          Scalar("Author", "Maksym Kondratenko"),
          Scalar("Author-Email", "m.kondratenko.ua@gmail.com"),
          Scalar("License-File", "LICENSE"),
          List("Classifier",
               <<"Topic :: Utilities",
                 "Topic :: System :: Software Distribution",
                 "Programming Language :: Python :: 2",
                 "Programming Language :: Python :: 3",
                 "Operating System :: POSIX :: Linux",
                 "Operating System :: Microsoft :: Windows",
                 "Operating System :: MacOS">>),
          Scalar("Requires-Python", ">=2"),
          Scalar("Description-Content-Type", "text/markdown")>>,
        ReadmeText)

(***************************************************************************)
(* The environment of a run                                                *)
(***************************************************************************)
DefaultTag == <<"1", ".", "5", ".", "7", "-", "r", "c", "0">>

TagOf(major, minor, patch, pre, build) ==
    IntToChars(major) \o <<".">> \o IntToChars(minor) \o <<".">>
        \o IntToChars(patch)
        \o (IF pre = <<>> THEN <<>> ELSE <<"-">> \o pre)
        \o (IF build = <<>> THEN <<>> ELSE <<"+">> \o build)

PreChoices ==
    {<<>>, <<"r", "c", "0">>, <<"r", "c", ".", "1">>, <<"r", "c", "-", "1">>}
BuildChoices == {<<>>, <<"b", ".", "7">>}

WellFormedTags ==
    {TagOf(ma, mi, pa, pre, b) :
        ma \in 0..MaxNum, mi \in 0..MaxNum, pa \in 0..MaxNum,
        pre \in PreChoices, b \in BuildChoices}

MalformedTags ==
    {<<>>, <<"1", ".", "5">>, <<"0", "1", ".", "0", ".", "0">>,
     <<"1", ".", "0", ".", "0", "-">>, <<"v", "1", ".", "0", ".", "0">>}

\* The values of GIT_TAG explored by the version resolver alone, and by
\* the whole script.
AllTags == WellFormedTags \cup MalformedTags \cup {DefaultTag}
PipelineTags == {DefaultTag, <<"1", ".", "5">>}

\* What a release archive holds depends on the operating system it was
\* built for: any subset of the two names the script probes for.
OsNames == {"linux", "darwin", "windows"}
MemberNames == {"terraform", "terraform.exe"}
Releases == [OsNames -> SUBSET MemberNames]

\* The operating system an upstream architecture string names.
ArchOs(arch) ==
    CASE arch \in {"linux_amd64", "linux_386", "linux_arm64", "linux_arm"}
             -> "linux"
      [] arch \in {"darwin_amd64", "darwin_arm64"} -> "darwin"
      [] OTHER -> "windows"

\* What wget can leave on disk for the manifest, the signature and an
\* archive: the published file, or something else.
Genuine(names) == [genuine |-> TRUE,  names |-> names]
Forged         == [genuine |-> FALSE, names |-> {}]

\* The bytes of member name of the archive zip.
MemberData(zip, name) == <<"ELF", zip.stem, name>>

\* gpg --no-default-keyring --keyring hashicorp.gpg --verify sigs sha256:
\* exit status 0 only for the published manifest with its published
\* signature.
GpgVerifies(files, sigs, sha256) ==
    files[sigs].genuine /\ files[sha256].genuine

\* shasum --algorithm 256 --ignore-missing --check sha256, run in BUILD_DIR:
\* every archive that is present must match its line of the manifest.
ShasumChecks(files, sha256) ==
    \A f \in DOMAIN files : f.suffix = ".zip" => files[f].genuine

(***************************************************************************)
(* Paths of one wheel (lines 164-182, 232)                                 *)
(***************************************************************************)
\* A faulty variant of wheel_name: the platform is left out of the name.
wheel_name_no_platform(platform) ==
    JoinStr(<<PACKAGE_WHEELNAME, JoinStr(PYTHON_TAGS, "."),
              JoinStr(ABI_TAGS, ".")>>, "-")

wheel_name(platform) ==
    JoinStr(<<PACKAGE_WHEELNAME, JoinStr(PYTHON_TAGS, "."),
              JoinStr(ABI_TAGS, "."), platform>>, "-")

\* Path("{!s}.whl".format(wheel_tree))
wheel_file(platform) == wheel_name(platform) \o ".whl"

\* Paths relative to wheel_tree.
wheel_scripts == PACKAGE_WHEELNAME \o ".data/scripts"
wheel_info == PACKAGE_WHEELNAME \o ".dist-info"
ScriptPath(name) == wheel_scripts \o "/" \o name
package_metadata == wheel_info \o "/METADATA"
wheel_metadata == wheel_info \o "/WHEEL"
wheel_record == wheel_info \o "/RECORD"
license_copy == wheel_info \o "/LICENSE"

\* What wheel_tree can hold when the iteration starts (mkdir(exist_ok=True)
\* keeps it): nothing, the files of an earlier run that packaged either
\* binary name, or a file put there by something else.
OldData == <<"old\n">>
EarlierRun(name) ==
    [p \in {ScriptPath(name), license_copy, package_metadata,
            wheel_metadata, wheel_record} |-> OldData]
StaleTrees ==
    {NoFiles, EarlierRun("terraform"), EarlierRun("terraform.exe"),
     Put(NoFiles, wheel_info \o "/INSTALLER", OldData)}

\* tags of lines 202-205 and the message of lines 207-214
wheel_tags(platform) ==
    [i \in 1..(Len(PYTHON_TAGS) * Len(ABI_TAGS)) |->
        JoinStr(<<PYTHON_TAGS[((i - 1) \div Len(ABI_TAGS)) + 1],
                  ABI_TAGS[((i - 1) % Len(ABI_TAGS)) + 1],
                  platform>>, "-")]

wheel_metadata_msg(platform) ==
    make_message(
        <<Scalar("Wheel-Version", "1.0"),
          Scalar("Generator", "bdist_wheel 1.0"),
          Scalar("Root-Is-Purelib", "false"),
          List("Tag", wheel_tags(platform))>>,
        "")

RECURSIVE RecordLoop(_, _, _)
\* The loop of lines 220-222 over the remaining files.
RecordLoop(files, tree, entries) ==
    IF files = <<>> THEN entries
    ELSE RecordLoop(Tail(files), tree,
                    DictSet(entries, Head(files), rehash(tree[Head(files)])))

\* wheel_record_entries after line 224.
wheel_record_entries(tree) ==
    DictSet(RecordLoop(GlobFiles(tree), tree, <<>>), wheel_record, <<"", "">>)

\* wheel_record_lines of lines 225-227.
wheel_record_lines(tree) ==
    LET entries == wheel_record_entries(tree)
    IN  [i \in 1..Len(entries) |->
            JoinStr(<<entries[i][1], entries[i][2][1], entries[i][2][2]>>, ",")
                \o "\n"]

(***************************************************************************)
(* The script, statement by statement                                      *)
(***************************************************************************)
verVars == <<PACKAGE_VERSION, TERRAFORM_VERSION>>
envVars == <<GIT_TAG, upstream>>
dlVars  == <<build_files, wget_calls, platform_zip>>
chkVars == <<gpg_passed, shasum_passed>>
asmVars == <<unpacked, terraform_src, wheel_tree, record_lines, zf, wheel_files>>

terraform_sha256 == UrlName(TERRAFORM_SHA256_URL(TERRAFORM_VERSION))
terraform_sigs == UrlName(TERRAFORM_SIGS_URL(TERRAFORM_VERSION))

\* An exception nobody catches: the interpreter prints it and exits with
\* status 1.
Abort(step) ==
    /\ pc' = "aborted"
    /\ exit_code' = "nonzero"
    /\ failed_step' = step

Continue(next) ==
    /\ pc' = next
    /\ UNCHANGED <<exit_code, failed_step>>

\* Lines 71-77.
ResolveVersion ==
    /\ pc = "resolve"
    /\ IF IsSemver(GIT_TAG)
       THEN /\ PACKAGE_VERSION' = PackageVersionOf(GIT_TAG)
            /\ TERRAFORM_VERSION' = TerraformVersionOf(GIT_TAG)
            /\ Continue("metadata")
       ELSE /\ Abort("parse")
            /\ UNCHANGED verVars
    /\ UNCHANGED <<envVars, dlVars, chkVars, iter, asmVars, normVars>>

\* Lines 92-128: README.read_text() raises if the file cannot be read.
BuildMetadata ==
    /\ pc = "metadata"
    /\ \E readable \in BOOLEAN :
           IF readable THEN Continue("wget_sha256") ELSE Abort("metadata")
    /\ UNCHANGED <<envVars, verVars, dlVars, chkVars, iter, asmVars, normVars>>

\* Line 130.  sh raises ErrorReturnCode when wget exits with a failure.
WgetSha256 ==
    /\ pc = "wget_sha256"
    /\ wget_calls' = Append(wget_calls, TERRAFORM_SHA256_URL(TERRAFORM_VERSION))
    /\ \/ /\ \E got \in {Genuine({}), Forged} :
                 build_files' = Put(build_files, terraform_sha256, got)
          /\ Continue("wget_sigs")
       \/ /\ Abort("wget_sha256")
          /\ UNCHANGED build_files
    /\ UNCHANGED <<envVars, verVars, platform_zip, chkVars, iter, asmVars, normVars>>

\* Line 131.
WgetSigs ==
    /\ pc = "wget_sigs"
    /\ wget_calls' = Append(wget_calls, TERRAFORM_SIGS_URL(TERRAFORM_VERSION))
    /\ \/ /\ \E got \in {Genuine({}), Forged} :
                 build_files' = Put(build_files, terraform_sigs, got)
          /\ Continue("gpg")
       \/ /\ Abort("wget_sigs")
          /\ UNCHANGED build_files
    /\ UNCHANGED <<envVars, verVars, platform_zip, chkVars, iter, asmVars, normVars>>

\* A faulty variant of Gpg: the exit status of gpg is not looked at.
GpgUnchecked ==
    /\ pc = "gpg"
    /\ gpg_passed' = GpgVerifies(build_files, terraform_sigs, terraform_sha256)
    /\ Continue("download")
    /\ iter' = 1
    /\ UNCHANGED <<envVars, verVars, dlVars, shasum_passed, asmVars, normVars>>

\* Lines 133-145.  sh raises ErrorReturnCode when gpg exits with a failure.
Gpg ==
    /\ pc = "gpg"
    /\ IF GpgVerifies(build_files, terraform_sigs, terraform_sha256)
       THEN /\ gpg_passed' = TRUE
            /\ Continue("download")
            /\ iter' = 1
       ELSE /\ Abort("gpg")
            /\ UNCHANGED <<gpg_passed, iter>>
    /\ UNCHANGED <<envVars, verVars, dlVars, shasum_passed, asmVars, normVars>>

\* One iteration of the loop of lines 146-150.
DownloadZip ==
    /\ pc = "download"
    /\ LET platform == PY_PLATFORM_TF_ARCH[iter].platform
           terraform_arch == PY_PLATFORM_TF_ARCH[iter].arch
           terraform_zip_url == TERRAFORM_URL(TERRAFORM_VERSION, terraform_arch)
           terraform_zip == UrlName(terraform_zip_url)
       IN  /\ wget_calls' = Append(wget_calls, terraform_zip_url)
           /\ \/ /\ \E got \in {Genuine(upstream[ArchOs(terraform_arch)]), Forged} :
                        build_files' = Put(build_files, terraform_zip, got)
                 /\ platform_zip' = DictSet(platform_zip, platform, terraform_zip)
                 /\ iter' = iter + 1
                 /\ Continue(IF iter = Len(PY_PLATFORM_TF_ARCH)
                             THEN "shasum" ELSE "download")
              \/ /\ Abort("wget_zip")
                 /\ UNCHANGED <<build_files, platform_zip, iter>>
    /\ UNCHANGED <<envVars, verVars, chkVars, asmVars, normVars>>

\* A faulty variant of Shasum: the exit status of shasum is not looked at.
ShasumUnchecked ==
    /\ pc = "shasum"
    /\ shasum_passed' = ShasumChecks(build_files, terraform_sha256)
    /\ Continue("unpack")
    /\ iter' = 1
    /\ UNCHANGED <<envVars, verVars, dlVars, gpg_passed, asmVars, normVars>>

\* Lines 152-161.  sh raises ErrorReturnCode when shasum exits with a
\* failure.
Shasum ==
    /\ pc = "shasum"
    /\ IF ShasumChecks(build_files, terraform_sha256)
       THEN /\ shasum_passed' = TRUE
            /\ Continue("unpack")
            /\ iter' = 1
       ELSE /\ Abort("shasum")
            /\ UNCHANGED <<shasum_passed, iter>>
    /\ UNCHANGED <<envVars, verVars, dlVars, gpg_passed, asmVars, normVars>>

\* Lines 163-186 of one iteration: the tree is created if it is not there,
\* and the archive is unpacked beside it.  The unpack directory then holds
\* the members of the archive.
Unpack ==
    /\ pc = "unpack"
    /\ LET platform == platform_zip[iter][1]
           terraform_zip == platform_zip[iter][2]
       IN  /\ \E stale \in StaleTrees : wheel_tree' = stale
           /\ terraform_src' = build_files[terraform_zip].names
           /\ unpacked' = Append(unpacked,
                  [platform |-> platform, zip |-> terraform_zip,
                   extract_dir |-> WithoutSuffix(terraform_zip),
                   signed |-> gpg_passed, checked |-> shasum_passed])
    /\ record_lines' = <<>>
    /\ zf' = <<>>
    /\ Continue("copy")
    /\ UNCHANGED <<envVars, verVars, dlVars, chkVars, iter, wheel_files, normVars>>

\* A faulty variant of terraform_src_binary: the .exe name is probed first.
terraform_src_binary_exe_first(src) ==
    IF "terraform.exe" \in src THEN "terraform.exe" ELSE "terraform"

\* Lines 188-190: the name of the binary in the unpack directory src.
terraform_src_binary(src) ==
    IF "terraform" \in src THEN "terraform" ELSE "terraform.exe"

\* A faulty variant of CopyBinary: the exception of a missing binary is caught
\* and the loop goes on with the next platform.
CopyBinarySkipping ==
    /\ pc = "copy"
    /\ LET name == terraform_src_binary(terraform_src)
           terraform_zip == platform_zip[iter][2]
       IN  IF name \in terraform_src
           THEN /\ wheel_tree' = Put(wheel_tree, ScriptPath(name),
                                     MemberData(terraform_zip, name))
                /\ Continue("pack")
                /\ UNCHANGED iter
           ELSE /\ UNCHANGED <<wheel_tree, failed_step>>
                /\ iter' = iter + 1
                /\ pc' = IF iter = Len(platform_zip) THEN "done" ELSE "unpack"
                /\ exit_code' = IF iter = Len(platform_zip) THEN "zero" ELSE exit_code
    /\ UNCHANGED <<envVars, verVars, dlVars, chkVars, unpacked,
                   terraform_src, record_lines, zf, wheel_files, normVars>>

\* Lines 188-195: shutil.copy raises FileNotFoundError when the probed
\* name is not there.
CopyBinary ==
    /\ pc = "copy"
    /\ LET name == terraform_src_binary(terraform_src)
           terraform_zip == platform_zip[iter][2]
       IN  IF name \in terraform_src
           THEN /\ wheel_tree' = Put(wheel_tree, ScriptPath(name),
                                     MemberData(terraform_zip, name))
                /\ Continue("pack")
           ELSE /\ Abort("copy")
                /\ UNCHANGED wheel_tree
    /\ UNCHANGED <<envVars, verVars, dlVars, chkVars, iter, unpacked,
                   terraform_src, record_lines, zf, wheel_files, normVars>>

\* The tree after lines 197-217: LICENSE, METADATA and WHEEL are written.
WithMetadata(tree, platform) ==
    Put(Put(Put(tree, license_copy, LicenseData),
            package_metadata, as_string(PACKAGE_METADATA_MSG)),
        wheel_metadata, as_string(wheel_metadata_msg(platform)))

\* Lines 197-239 of one iteration: the metadata files, RECORD, and the
\* wheel file with one entry per file of the tree.
PackWheel ==
    /\ pc = "pack"
    /\ LET platform == platform_zip[iter][1]
           tree == WithMetadata(wheel_tree, platform)
           lines == wheel_record_lines(tree)
           final == Put(tree, wheel_record, lines)
       IN  /\ record_lines' = lines
           /\ wheel_tree' = final
           /\ zf' = GlobFiles(final)
           /\ wheel_files' = Append(wheel_files, wheel_file(platform))
    /\ iter' = iter + 1
    /\ IF iter = Len(platform_zip)
       THEN /\ pc' = "done"
            /\ exit_code' = "zero"
            /\ UNCHANGED failed_step
       ELSE Continue("unpack")
    /\ UNCHANGED <<envVars, verVars, dlVars, chkVars, unpacked, terraform_src,
                   normVars>>

\* Any file system call of an iteration can raise OSError.
FilesystemError ==
    /\ pc \in {"unpack", "copy", "pack"}
    /\ Abort("filesystem")
    /\ UNCHANGED <<envVars, verVars, dlVars, chkVars, iter, asmVars, normVars>>

(***************************************************************************)
(* One call chain of normalize                                             *)
(***************************************************************************)
NormChars == {"-", "_", ".", "a", "b"}
NormArgs == UNION {[1..n -> NormChars] : n \in 0..MaxLen}

\* normalize is called on the argument, then on what it returned.
CallNormalize ==
    /\ n_calls < 2
    /\ n_res' = normalize(IF n_calls = 0 THEN n_arg ELSE n_res)
    /\ n_prev' = n_res
    /\ n_calls' = n_calls + 1
    /\ UNCHANGED <<n_arg, runVars>>

(***************************************************************************)
(* Specifications                                                          *)
(***************************************************************************)
NormIdle ==
    /\ n_arg = <<>>
    /\ n_res = <<>>
    /\ n_prev = <<>>
    /\ n_calls = 0

RunStart ==
    /\ pc = "resolve"
    /\ exit_code = "none"
    /\ failed_step = "none"
    /\ PACKAGE_VERSION = ""
    /\ TERRAFORM_VERSION = ""
    /\ build_files = NoFiles
    /\ wget_calls = <<>>
    /\ gpg_passed = FALSE
    /\ shasum_passed = FALSE
    /\ platform_zip = <<>>
    /\ iter = 0
    /\ unpacked = <<>>
    /\ terraform_src = {}
    /\ wheel_tree = NoFiles
    /\ record_lines = <<>>
    /\ zf = <<>>
    /\ wheel_files = <<>>

\* The whole script.
Init ==
    /\ RunStart
    /\ GIT_TAG \in PipelineTags
    /\ upstream \in Releases
    /\ NormIdle

Next ==
    \/ ResolveVersion
    \/ BuildMetadata
    \/ WgetSha256
    \/ WgetSigs
    \/ Gpg
    \/ DownloadZip
    \/ Shasum
    \/ Unpack
    \/ CopyBinary
    \/ PackWheel
    \/ FilesystemError

Spec == Init /\ [][Next]_vars

\* The version resolver alone, over every explored tag.
InitVersion ==
    /\ RunStart
    /\ GIT_TAG \in AllTags
    /\ upstream = [os \in OsNames |-> {"terraform"}]
    /\ NormIdle

NextVersion == ResolveVersion

SpecVersion == InitVersion /\ [][NextVersion]_vars

\* normalize alone, over every explored argument.
InitNormalize ==
    /\ RunStart
    /\ GIT_TAG = DefaultTag
    /\ upstream = [os \in OsNames |-> {"terraform"}]
    /\ n_arg \in NormArgs
    /\ n_res = <<>>
    /\ n_prev = <<>>
    /\ n_calls = 0

NextNormalize == CallNormalize

SpecNormalize == InitNormalize /\ [][NextNormalize]_vars

(***************************************************************************)
(* Properties                                                              *)
(***************************************************************************)
NumPlatforms == Len(PY_PLATFORM_TF_ARCH)
PlatformAt(i) == PY_PLATFORM_TF_ARCH[i].platform
ZipAt(i) == UrlName(TERRAFORM_URL(TERRAFORM_VERSION, PY_PLATFORM_TF_ARCH[i].arch))

\* Nothing more is executed.
RunStopped == ~ENABLED Next

ManifestFetched == {terraform_sha256, terraform_sigs} \subseteq DOMAIN build_files
AllZipsFetched == \A i \in 1..NumPlatforms : ZipAt(i) \in DOMAIN build_files
BeforeGpg == pc \in {"resolve", "metadata", "wget_sha256", "wget_sigs", "gpg"}
BeforeShasum == BeforeGpg \/ pc \in {"download", "shasum"}

\* C1: the signature check of the manifest has succeeded before any
\* archive is checksum-checked or unpacked and before any wheel is written;
\* when the manifest and signature on disk do not verify, the run has
\* stopped at gpg with a non-zero status, nothing unpacked, nothing written.
C1_SignatureBeforeTrust ==
    /\ (shasum_passed \/ failed_step = "shasum" \/ unpacked # <<>>
            \/ wheel_files # <<>>)
           => /\ gpg_passed
              /\ GpgVerifies(build_files, terraform_sigs, terraform_sha256)
    /\ \A i \in 1..Len(unpacked) : unpacked[i].signed
    /\ (ManifestFetched /\ ~BeforeGpg
            /\ ~GpgVerifies(build_files, terraform_sigs, terraform_sha256))
           => /\ failed_step = "gpg"
              /\ exit_code = "nonzero"
              /\ ~shasum_passed
              /\ unpacked = <<>>
              /\ wheel_files = <<>>
              /\ RunStopped

\* The run that was given a forged manifest has stopped at gpg.
C1_Witness ==
    /\ failed_step = "gpg"
    /\ ~build_files[terraform_sha256].genuine
    /\ build_files[terraform_sigs].genuine

\* C2: shasum runs after gpg has succeeded and every platform archive has
\* been downloaded; every archive is unpacked in a state where shasum has
\* succeeded; when an archive on disk does not match the manifest, the run
\* has stopped at shasum with nothing unpacked.
C2_ChecksumBeforeUnpack ==
    /\ \A i \in 1..Len(unpacked) : unpacked[i].checked
    /\ (shasum_passed \/ failed_step = "shasum")
           => /\ gpg_passed
              /\ AllZipsFetched
              /\ Keys(platform_zip) = {PlatformAt(i) : i \in 1..NumPlatforms}
              /\ Len(wget_calls) = 2 + NumPlatforms
    /\ unpacked # <<>> => ShasumChecks(build_files, terraform_sha256)
    /\ (~BeforeShasum /\ failed_step \notin {"wget_zip", "gpg"}
            /\ ~ShasumChecks(build_files, terraform_sha256))
           => /\ failed_step = "shasum"
              /\ exit_code = "nonzero"
              /\ unpacked = <<>>
              /\ wheel_files = <<>>
              /\ RunStopped

\* An archive has been unpacked after shasum succeeded.
C2_Witness ==
    /\ unpacked # <<>>
    /\ shasum_passed
    /\ unpacked[1].checked

\* C3: exit status zero only after every step succeeded and one wheel per
\* platform of the table was written; a step that failed ended the run
\* at once with a non-zero status, and nothing more is executed.
C3_NoPartialSuccess ==
    /\ exit_code = "zero"
           => /\ pc = "done"
              /\ failed_step = "none"
              /\ IsSemver(GIT_TAG)
              /\ gpg_passed
              /\ shasum_passed
              /\ Len(unpacked) = NumPlatforms
              /\ wheel_files = [i \in 1..NumPlatforms |-> wheel_file(PlatformAt(i))]
    /\ pc = "done" => exit_code = "zero"
    /\ failed_step # "none" => pc = "aborted" /\ exit_code = "nonzero"
    /\ pc = "aborted" => failed_step # "none" /\ RunStopped
    /\ failed_step # "none" => Len(wheel_files) < NumPlatforms

\* A file system call of the last iteration failed after every other
\* wheel was written.
C3_Witness ==
    /\ failed_step = "filesystem"
    /\ exit_code = "nonzero"
    /\ iter = NumPlatforms
    /\ Len(wheel_files) = NumPlatforms - 1

\* C4: a run that ended with status zero called wget 2 + N times (the
\* manifest, the signature, then the archive of each platform key in table
\* order) and wrote N wheel files, the i-th named
\* <name>-<version>-py2.py3-none-<i-th platform>.whl, all names distinct.
C4_DownloadsAndWheels ==
    exit_code = "zero"
        => /\ Len(wget_calls) = 2 + NumPlatforms
           /\ wget_calls[1] = TERRAFORM_SHA256_URL(TERRAFORM_VERSION)
           /\ wget_calls[2] = TERRAFORM_SIGS_URL(TERRAFORM_VERSION)
           /\ \A i \in 1..NumPlatforms :
                  wget_calls[2 + i] =
                      TERRAFORM_URL(TERRAFORM_VERSION, PY_PLATFORM_TF_ARCH[i].arch)
           /\ Len(wheel_files) = NumPlatforms
           /\ \A i \in 1..NumPlatforms :
                  wheel_files[i] =
                      "terraform_binary_wheel-" \o PACKAGE_VERSION
                          \o "-py2.py3-none-" \o PlatformAt(i) \o ".whl"
           /\ \A i, j \in 1..NumPlatforms :
                  i # j => wheel_files[i] # wheel_files[j]

\* A run has ended with status zero.
C4_Witness ==
    /\ exit_code = "zero"
    /\ Len(wheel_files) = NumPlatforms

\* The RECORD line the claim asks for the file at path of the tree.
RecordLineFor(path) ==
    IF path = wheel_record THEN path \o ",,\n"
    ELSE path \o ",sha256=" \o JoinStr(wheel_tree[path], "") \o ","
             \o Str(IntToChars(ByteLen(wheel_tree[path]))) \o "\n"

\* C5: once RECORD is written, it has one line per regular file of the
\* tree and no other line: a file other than RECORD with its digest and
\* byte length, RECORD itself with both fields empty; whatever the tree
\* held when the iteration started.
C5_RecordListsEveryFileOnce ==
    record_lines # <<>>
        => /\ Len(record_lines) = Cardinality(DOMAIN wheel_tree)
           /\ \A p \in DOMAIN wheel_tree :
                  Cardinality({i \in 1..Len(record_lines) :
                                   record_lines[i] = RecordLineFor(p)}) = 1

\* RECORD was written over a tree that an earlier run had left, RECORD
\* included.
C5_Witness ==
    /\ record_lines # <<>>
    /\ ScriptPath("terraform") \in DOMAIN wheel_tree
    /\ ScriptPath("terraform.exe") \in DOMAIN wheel_tree
    /\ wheel_tree[ScriptPath("terraform.exe")] = OldData
    /\ wheel_tree[ScriptPath("terraform")] # OldData

\* The five entries of a wheel that packages the binary called name.
FiveEntries(name) ==
    {ScriptPath(name), license_copy, package_metadata, wheel_metadata,
     wheel_record}

\* C6: every wheel file holds exactly the five entries (the binary under
\* scripts, LICENSE, METADATA, WHEEL, RECORD), and its entry names are the
\* paths RECORD lists.
C6_FiveEntries ==
    zf # <<>>
        => /\ Len(zf) = 5
           /\ \E name \in MemberNames :
                  {zf[i] : i \in 1..Len(zf)} = FiveEntries(name)
           /\ \A i \in 1..Len(zf) :
                  \E k \in 1..Len(record_lines) :
                      record_lines[k] = RecordLineFor(zf[i])
           /\ Len(record_lines) = Len(zf)

\* The package version the claim describes: the three numbers, then the
\* pre-release and the build if present, each normalized, joined by ".".
ClaimedPackageVersion(tag) ==
    LET g == SemverGroups(tag)
    IN  JoinStr(<<Str(normalize(g.core[1])), Str(normalize(g.core[2])),
                  Str(normalize(g.core[3]))>>
                  \o (IF g.has_pre THEN <<Str(normalize(g.prerelease))>> ELSE <<>>)
                  \o (IF g.has_build THEN <<Str(normalize(g.build))>> ELSE <<>>),
                ".")

\* C7: for every valid tag the package version is major.minor.patch
\* followed by the present pre-release and build, each normalized, and the
\* tool version is major.minor.patch; tag 1.5.7-rc0 gives 1.5.7.rc0 and
\* 1.5.7.
C7_VersionsOfTag ==
    (pc = "metadata")
        => /\ PACKAGE_VERSION = ClaimedPackageVersion(GIT_TAG)
           /\ TERRAFORM_VERSION =
                  JoinStr([i \in 1..3 |-> Str(SemverGroups(GIT_TAG).core[i])], ".")
           /\ (GIT_TAG = DefaultTag
                  => PACKAGE_VERSION = "1.5.7.rc0" /\ TERRAFORM_VERSION = "1.5.7")

\* The positions of arg that survive: every character outside the class,
\* and the first character of every maximal run of class characters.
KeptPositions(arg) ==
    {i \in 1..Len(arg) :
        arg[i] \notin SepChars \/ i = 1 \/ arg[i - 1] \notin SepChars}

\* arg with every maximal run of class characters replaced by one "_".
Collapsed(arg) ==
    [k \in 1..Cardinality(KeptPositions(arg)) |->
        LET i == CHOOSE x \in KeptPositions(arg) :
                     Cardinality({y \in KeptPositions(arg) : y <= x}) = k
        IN  IF arg[i] \in SepChars THEN "_" ELSE arg[i]]

\* C8: normalize replaces every maximal run of "-", "_", "." by one "_"
\* and keeps every other character in order; its result holds no "-", no
\* "." and no two adjacent "_"; applied to its own result it changes
\* nothing.
C8_NormalizeCollapses ==
    /\ n_calls = 2 => n_res = n_prev
    /\ n_calls >= 1
           => LET r == IF n_calls = 1 THEN n_res ELSE n_prev
              IN  /\ r = Collapsed(n_arg)
                  /\ \A i \in 1..Len(r) : r[i] \notin {"-", "."}
                  /\ \A i \in 1..(Len(r) - 1) : ~(r[i] = "_" /\ r[i + 1] = "_")
                  /\ SelectSeq(r, LAMBDA c : c \notin SepChars)
                         = SelectSeq(n_arg, LAMBDA c : c \notin SepChars)

\* normalize was applied twice to an argument with a run of three.
C8_Witness ==
    /\ n_calls = 2
    /\ n_arg = <<"a", "-", "_", ".">>
    /\ n_res = <<"a", "_">>

\* C9: the binary is found by probing: when the unpack directory holds
\* terraform, that file is copied as scripts/terraform, even beside a
\* terraform.exe; otherwise terraform.exe is copied as
\* scripts/terraform.exe; when it holds neither, the copy fails, the run
\* stops, and the wheels written are those of the earlier platforms only.
C9_BinaryProbe ==
    /\ pc = "pack"
           => LET zip == platform_zip[iter][2]
                  copied == IF "terraform" \in terraform_src
                            THEN "terraform" ELSE "terraform.exe"
                  other == IF copied = "terraform"
                           THEN "terraform.exe" ELSE "terraform"
              IN  /\ copied \in terraform_src
                  /\ ScriptPath(copied) \in DOMAIN wheel_tree
                  /\ wheel_tree[ScriptPath(copied)] = MemberData(zip, copied)
                  /\ ScriptPath(other) \in DOMAIN wheel_tree
                         => wheel_tree[ScriptPath(other)] = OldData
    /\ failed_step = "copy"
           => /\ terraform_src \cap MemberNames = {}
              /\ exit_code = "nonzero"
              /\ RunStopped
              /\ wheel_files =
                     [i \in 1..(iter - 1) |-> wheel_file(platform_zip[i][1])]
    /\ (pc = "copy" /\ terraform_src \cap MemberNames = {})
           => \A i \in 1..Len(wheel_files) :
                  wheel_files[i] = wheel_file(platform_zip[i][1])

\* terraform was copied although terraform.exe was there too.
C9_Witness ==
    /\ pc = "pack"
    /\ terraform_src = {"terraform", "terraform.exe"}
    /\ wheel_tree[ScriptPath("terraform")]
           = MemberData(platform_zip[iter][2], "terraform")

\* The operating system a platform identifier names.
PlatformOs(platform) ==
    CASE platform \in {"macosx_11_0_x86_64", "macosx_11_0_arm64"} -> "darwin"
      [] platform \in {"win_amd64", "win32"} -> "windows"
      [] OTHER -> "linux"

\* C10: every wheel is assembled from the upstream archive of the
\* operating system its platform identifier names, and no two platform
\* keys are built from the same upstream archive file.
C10_ArchiveMatchesPlatform ==
    /\ \A i \in 1..Len(platform_zip) :
           \E k \in 1..NumPlatforms :
               /\ platform_zip[i][2] = ZipAt(k)
               /\ ArchOs(PY_PLATFORM_TF_ARCH[k].arch) = PlatformOs(platform_zip[i][1])
    /\ \A i, j \in 1..Len(unpacked) :
           i # j => unpacked[i].zip # unpacked[j].zip

====
